---- MODULE Spec2Model ----
(***************************************************************************)
(* Model of the workspace compilation pipeline of cc_workspace/main.py:    *)
(* File.should_ignore / File.resolve (glob expansion and ignore policy),   *)
(* Workspace.get_ignore_patterns, validate_workspace_files and             *)
(* compile_workspace, run against a small filesystem.                      *)
(*                                                                         *)
(* Paths and patterns are strings; a character is a string of length 1.    *)
(***************************************************************************)
EXTENDS Integers, Sequences, FiniteSets, TLC

(***************************************************************************)
(* String primitives (Python str methods used by the code).                *)
(***************************************************************************)

\* F(v) with v evaluated once.
With(v, F(_)) == CHOOSE y \in { F(x) : x \in {v} } : TRUE

\* The characters that occur in paths and patterns, in code-point order.
Ascii == "*-./0123456789?ABCDEFGHIJKLMNOPQRSTUVWXYZ[]_abcdefghijklmnopqrstuvwxyz~"

Ord(c) == CHOOSE i \in 1..Len(Ascii) : SubSeq(Ascii, i, i) = c

\* s.startswith(p)
startswith(s, p) == Len(s) >= Len(p) /\ SubSeq(s, 1, Len(p)) = p

\* p in s   (substring test)
contains(s, p) == \E i \in 1..(Len(s) - Len(p) + 1) : SubSeq(s, i, i + Len(p) - 1) = p

\* s.replace(old, "")  (left to right, non-overlapping)
RECURSIVE remove_all(_, _)
remove_all(s, old) ==
    IF s = "" THEN ""
    ELSE IF startswith(s, old) THEN remove_all(SubSeq(s, Len(old) + 1, Len(s)), old)
    ELSE Head(s) \o remove_all(Tail(s), old)

\* s.find(c, from): the first position of the character at or after from, 0
\* when there is none
RECURSIVE find(_, _, _)
find(s, c, from) ==
    IF from > Len(s) THEN 0
    ELSE IF SubSeq(s, from, from) = c THEN from
    ELSE find(s, c, from + 1)

\* s.lower() for ASCII letters
Upper == "ABCDEFGHIJKLMNOPQRSTUVWXYZ"
Lower == "abcdefghijklmnopqrstuvwxyz"
Digits == "0123456789"
RECURSIVE lower(_)
lower(s) ==
    IF s = "" THEN ""
    ELSE LET i == find(Upper, Head(s), 1)
         IN  (IF i = 0 THEN Head(s) ELSE SubSeq(Lower, i, i)) \o lower(Tail(s))

\* re.sub(r"[^a-zA-Z0-9]", "", s)
RECURSIVE alnum_only(_)
alnum_only(s) ==
    IF s = "" THEN ""
    ELSE (IF find(Upper \o Lower \o Digits, Head(s), 1) = 0 THEN "" ELSE Head(s))
            \o alnum_only(Tail(s))

\* str < str  (code-point order)
RECURSIVE str_less(_, _)
str_less(a, b) ==
    IF b = "" THEN FALSE
    ELSE IF a = "" THEN TRUE
    ELSE IF Head(a) = Head(b) THEN str_less(Tail(a), Tail(b))
    ELSE Ord(Head(a)) < Ord(Head(b))

\* s.split("/") without the empty pieces
RECURSIVE split_sep(_, _)
split_sep(s, cur) ==
    IF s = "" THEN (IF cur = "" THEN <<>> ELSE <<cur>>)
    ELSE IF Head(s) = "/" THEN (IF cur = "" THEN <<>> ELSE <<cur>>) \o split_sep(Tail(s), "")
    ELSE split_sep(Tail(s), cur \o Head(s))

\* pathlib: Path(s).parts  ("/" is a part of its own for an absolute path,
\* "." segments and empty segments are dropped)
parts(s) ==
    LET segs == SelectSeq(split_sep(s, ""), LAMBDA x : x # ".")
    IN  IF startswith(s, "/") THEN <<"/">> \o segs ELSE segs

\* pathlib: path.is_absolute()
is_absolute(s) == startswith(s, "/")

\* list < list on lists of strings
RECURSIVE parts_less(_, _)
parts_less(p, q) ==
    IF q = <<>> THEN FALSE
    ELSE IF p = <<>> THEN TRUE
    ELSE IF Head(p) = Head(q) THEN parts_less(Tail(p), Tail(q))
    ELSE str_less(Head(p), Head(q))

(***************************************************************************)
(* fnmatch.fnmatch(name, pat): shell-style match of the whole string;      *)
(* '*' matches any run of characters (a '/' included), '?' one character.  *)
(***************************************************************************)
RECURSIVE fnmatch(_, _)
fnmatch(name, pat) ==
    IF pat = "" THEN name = ""
    ELSE IF Head(pat) = "*"
         THEN fnmatch(name, Tail(pat)) \/ (name # "" /\ fnmatch(Tail(name), pat))
    ELSE IF Head(pat) = "?"
         THEN name # "" /\ fnmatch(Tail(name), Tail(pat))
    ELSE name # "" /\ Head(name) = Head(pat) /\ fnmatch(Tail(name), Tail(pat))

(***************************************************************************)
(* The filesystem.  Paths are relative to the workspace base directory     *)
(* (the grandparent of the config file) unless they start with "/".        *)
(***************************************************************************)

OutputName == "codecompanion-workspace.json"

\* The regular files that may exist.
FsPaths ==
    { "src/main.py", "src/empty.py", "src/pkg/a.py", "lib/src/b.py",
      ".git/config", "src/.env", "node_modules/p.json", "uv.lock",
      "tests/test_a.py", "src.txt", "pkg.egg-info/PKG-INFO", OutputName,
      "/etc/hosts",
      "link_to_file", "link_to_hidden", "link_to_secret" }

\* The symbolic links that may exist, all directly in the base directory,
\* and what each points to: a regular file, a hidden directory, and a file
\* in a hidden directory.
LinkTarget ==
    ("link_to_file" :> "src/main.py") @@ ("link_to_hidden" :> ".git")
        @@ ("link_to_secret" :> ".git/config")

\* The files of a project directory that init is run on: one the user put
\* there, the scaffold and the workspace files.  What uv and git write of
\* their own (uv.lock, .venv, .git) is out of the patterns' reach and is
\* left out.
InitPaths ==
    { "existing.txt",
      "README.md", "CHANGELOG.md", ".gitignore",
      "test_proj/__init__.py", "test_proj/main.py",
      "tests/__init__.py", "tests/test_basic.py",
      "scripts/ccw_check.sh", "pyproject.toml",
      ".cc/data/CONVENTIONS.md", ".cc/data/codecompanion_doc.md",
      ".cc/codecompanion.yaml", OutputName }

\* Content of a file that is not a compiled artifact.
NoDoc == [written |-> FALSE, name |-> "", description |-> "",
          system_prompt |-> "", groups |-> <<>>]

Absent == [kind |-> "absent", doc |-> NoDoc]
Empty  == [kind |-> "empty",  doc |-> NoDoc]
Data   == [kind |-> "data",   doc |-> NoDoc]
Link   == [kind |-> "link",   doc |-> NoDoc]

\* The proper non-empty prefixes of a list of parts.
Prefixes(pp) == { SubSeq(pp, 1, n) : n \in 1..(Len(pp) - 1) }

\* Path(q).parts of every file path.
FsParts == [q \in FsPaths \cup InitPaths |-> parts(q)]

\* The regular files on disk, as parts.
Regular(fs) ==
    { FsParts[q] : q \in { r \in DOMAIN fs : fs[r].kind \notin {"absent", "link"} } }

\* The directories on disk: the ancestors of the regular files, and the base.
RealDirs(fs) == {<<>>} \cup UNION { Prefixes(pp) : pp \in Regular(fs) }

\* The symbolic links on disk, by name.
Links(fs) == { l \in DOMAIN LinkTarget \cap DOMAIN fs : fs[l].kind = "link" }

\* os.stat follows links: the parts that pp denotes on disk.
Real(fs, pp) ==
    IF pp # <<>> /\ pp[1] \in Links(fs)
    THEN parts(LinkTarget[pp[1]]) \o Tail(pp)
    ELSE pp

\* The paths that lead through a link to something on disk.
Through(fs) ==
    UNION { LET t == parts(LinkTarget[l])
            IN  { <<l>> \o SubSeq(pp, Len(t) + 1, Len(pp)) :
                    pp \in { x \in Regular(fs) \cup RealDirs(fs) :
                                Len(x) >= Len(t) /\ SubSeq(x, 1, Len(t)) = t } }
            : l \in Links(fs) }

\* The paths at which there is a regular file, a link followed.
Files(fs) == Regular(fs) \cup { pp \in Through(fs) : Real(fs, pp) \in Regular(fs) }

\* The paths at which there is a directory, a link followed.
Dirs(fs) == RealDirs(fs) \cup { pp \in Through(fs) : Real(fs, pp) \in RealDirs(fs) }

\* The state of the regular file at parts pp, a link followed.
FileAt(fs, pp) ==
    LET rp == Real(fs, pp)
        at == { q \in DOMAIN fs : FsParts[q] = rp /\ fs[q].kind # "link" }
    IN  IF at # {} THEN fs[CHOOSE q \in at : TRUE] ELSE Absent

\* pathlib: (base_path / p).exists(), .is_file(), .stat().st_size
exists(fs, p) == parts(p) \in Files(fs) \cup Dirs(fs)
is_file(fs, p) == parts(p) \in Files(fs)
st_size(fs, p) == IF FileAt(fs, parts(p)).kind = "data" THEN 1 ELSE 0

\* "/".join(parts)
RECURSIVE join(_)
join(pp) ==
    IF pp = <<>> THEN ""
    ELSE IF Len(pp) = 1 THEN pp[1]
    ELSE IF pp[1] = "/" THEN "/" \o join(Tail(pp))
    ELSE pp[1] \o "/" \o join(Tail(pp))

(***************************************************************************)
(* pathlib globbing.  A pattern is matched segment by segment; "**"        *)
(* stands for zero or more directory levels, every other segment is        *)
(* matched against one path segment with fnmatch.  "**" does not descend   *)
(* into a directory that is a symbolic link; the other segments do.  depth *)
(* is the number of segments above pp.                                     *)
(***************************************************************************)
RECURSIVE glob_match(_, _, _)
glob_match(pat, pp, depth) ==
    IF pat = <<>> THEN pp = <<>>
    ELSE IF Head(pat) = "**"
         THEN \/ glob_match(Tail(pat), pp, depth)
              \/ /\ pp # <<>>
                 /\ ~(depth = 0 /\ Head(pp) \in DOMAIN LinkTarget)
                 /\ glob_match(pat, Tail(pp), depth + 1)
    ELSE /\ pp # <<>>
         /\ fnmatch(Head(pp), Head(pat))
         /\ glob_match(Tail(pat), Tail(pp), depth + 1)

\* The entries below the base directory (files and directories), as parts.
Entries(fs) == { pp \in Files(fs) \cup Dirs(fs) : pp # <<>> /\ pp[1] # "/" }

\* base_path.glob(pattern) with the pattern matched against the whole
\* relative path, so that a wildcard runs across separators
glob_across(fs, pattern) ==
    IF pattern = "" \/ is_absolute(pattern)
    THEN [raised |-> TRUE, paths |-> {}]
    ELSE [raised |-> FALSE,
          paths |-> { pp \in Entries(fs) : fnmatch(join(pp), pattern) }]

\* base_path.glob(pattern): an empty pattern raises ValueError and an
\* absolute one NotImplementedError.
glob(fs, pattern) ==
    IF pattern = "" \/ is_absolute(pattern)
    THEN [raised |-> TRUE, paths |-> {}]
    ELSE LET pat == parts(pattern)
         IN  [raised |-> FALSE,
              paths |-> { pp \in Entries(fs) : glob_match(pat, pp, 0) }]

\* base_path.rglob(pattern), the same as glob("**/" + pattern)
rglob(fs, pattern) ==
    IF pattern = "" \/ is_absolute(pattern)
    THEN [raised |-> TRUE, paths |-> {}]
    ELSE LET pat == <<"**">> \o parts(pattern)
         IN  [raised |-> FALSE,
              paths |-> { pp \in Entries(fs) : glob_match(pat, pp, 0) }]

\* sorted(paths): Path objects compare by their parts.
RECURSIVE insert_sorted(_, _)
insert_sorted(x, seq) ==
    IF seq = <<>> THEN <<x>>
    ELSE IF parts_less(Head(seq), x) THEN <<Head(seq)>> \o insert_sorted(x, Tail(seq))
    ELSE <<x>> \o seq

\* sorted(str(p) for p in paths): the candidates ordered as strings
RECURSIVE insert_by_string(_, _)
insert_by_string(x, seq) ==
    IF seq = <<>> THEN <<x>>
    ELSE IF str_less(join(Head(seq)), join(x))
         THEN <<Head(seq)>> \o insert_by_string(x, Tail(seq))
    ELSE <<x>> \o seq

RECURSIVE sorted_by_string(_)
sorted_by_string(S) ==
    IF S = {} THEN <<>>
    ELSE LET x == CHOOSE y \in S : TRUE
         IN  insert_by_string(x, sorted_by_string(S \ {x}))

RECURSIVE sorted(_)
sorted(S) ==
    IF S = {} THEN <<>>
    ELSE LET x == CHOOSE y \in S : TRUE
         IN  insert_sorted(x, sorted(S \ {x}))

(***************************************************************************)
(* class File                                                              *)
(***************************************************************************)

None == "<None>"

Range(seq) == { seq[i] : i \in 1..Len(seq) }

DEFAULT_IGNORE_PATTERNS ==
    [ default |->
        { \* Dependencies
          "node_modules/", "venv/", ".env/", "__pycache__/", "*.pyc", "target/",
          "dist/", "build/", ".tox/", ".pytest_cache/", ".coverage", "coverage/",
          ".hypothesis/",
          \* IDE
          "*.swp", ".DS_Store", ".idea/", ".vscode/", "*.sublime-*", ".project",
          ".settings/", ".classpath", "*.iml",
          \* Temp
          "*.log", "tmp/", "temp/", "*.tmp", "*.bak", "*~",
          \* Packages
          "*.egg-info/", "*.egg", "*.whl", "*.tar.gz", "*.zip",
          \* Workspace
          ".cc/", ".git/", ".hg/", ".svn/",
          \* Locks
          "*.lock", "package-lock.json", "yarn.lock", "pnpm-lock.yaml", "go.sum" } ]

\* The private attribute _ignore_patterns: None, or a set of patterns.
NoPatterns == [is_none |-> TRUE, patterns |-> {}]
Patterns(P) == [is_none |-> FALSE, patterns |-> P]

\* File(path=..., description=..., kind=...)
File(path, description, kind) ==
    [description |-> description, path |-> path, kind |-> kind,
     _ignore_patterns |-> NoPatterns]

\* File.ignore_patterns (property getter)
ignore_patterns(self) ==
    IF self._ignore_patterns.is_none
    THEN UNION { DEFAULT_IGNORE_PATTERNS[c] : c \in DOMAIN DEFAULT_IGNORE_PATTERNS }
    ELSE self._ignore_patterns.patterns

\* any(part.startswith(".") for part in Path(path).parts)
has_dot_part(path) ==
    LET path_parts == parts(path)
    IN  \E i \in 1..Len(path_parts) : startswith(path_parts[i], ".")

\* File.should_ignore without the check of the path parts
should_ignore_patterns_only(self, path) ==
    IF self.kind = "file" THEN FALSE
    ELSE LET p == IF startswith(path, "./") THEN SubSeq(path, 3, Len(path)) ELSE path
         IN  \E pattern \in ignore_patterns(self) :
                 IF contains(pattern, "*") THEN fnmatch(p, pattern)
                 ELSE contains(p, pattern)

\* File.should_ignore
should_ignore(self, path) ==
    IF self.kind = "file" THEN FALSE
    ELSE LET p == IF startswith(path, "./") THEN SubSeq(path, 3, Len(path)) ELSE path
         IN  IF has_dot_part(p) THEN TRUE
             ELSE \E pattern \in ignore_patterns(self) :
                     IF contains(pattern, "*") THEN fnmatch(p, pattern)
                     ELSE contains(p, pattern)

\* The loop of File.resolve without the check of the size.
RECURSIVE resolve_loop_keep_empty(_, _, _)
resolve_loop_keep_empty(self, fs, paths) ==
    IF paths = <<>> THEN <<>>
    ELSE LET path == Head(paths)
             rel_path == join(path)
             rest == resolve_loop_keep_empty(self, fs, Tail(paths))
         IN  IF ~is_file(fs, rel_path) THEN rest
             ELSE IF should_ignore(self, rel_path) THEN rest
             ELSE <<File(rel_path, self.description, "file")>> \o rest

\* The loop of File.resolve over the sorted candidates.
RECURSIVE resolve_loop(_, _, _)
resolve_loop(self, fs, paths) ==
    IF paths = <<>> THEN <<>>
    ELSE LET path == Head(paths)
             rel_path == join(path)
             rest == resolve_loop(self, fs, Tail(paths))
         IN  IF ~is_file(fs, rel_path) THEN rest
             ELSE IF st_size(fs, rel_path) = 0 THEN rest
             ELSE IF should_ignore(self, rel_path) THEN rest
             ELSE <<File(rel_path, self.description, "file")>> \o rest

\* File.resolve without the try/except around the expansion of a pattern.
resolve_uncaught(self, fs) ==
    IF self.kind = "pattern"
    THEN With(IF contains(self.path, "**")
              THEN rglob(fs, remove_all(self.path, "**/"))
              ELSE glob(fs, self.path),
              LAMBDA found :
                 IF found.raised
                 THEN [raised |-> TRUE, files |-> <<>>]
                 ELSE [raised |-> FALSE,
                       files |-> resolve_loop(self, fs, sorted(found.paths))])
    ELSE IF is_file(fs, self.path) /\ st_size(fs, self.path) > 0
         THEN IF is_absolute(self.path)
              THEN [raised |-> TRUE, files |-> <<>>]
              ELSE [raised |-> FALSE, files |-> <<self>>]
         ELSE [raised |-> FALSE, files |-> <<>>]

\* File.resolve: the list of files, or raised = TRUE when an exception
\* leaves the method.
resolve(self, fs) ==
    IF self.kind = "pattern"
    THEN With(IF contains(self.path, "**")
              THEN rglob(fs, remove_all(self.path, "**/"))
              ELSE glob(fs, self.path),
              LAMBDA found :
                 IF found.raised
                 THEN [raised |-> FALSE, files |-> <<>>]
                 ELSE [raised |-> FALSE,
                       files |-> resolve_loop(self, fs, sorted(found.paths))])
    ELSE IF is_file(fs, self.path) /\ st_size(fs, self.path) > 0
         THEN IF is_absolute(self.path)
              THEN [raised |-> TRUE, files |-> <<>>]
              ELSE IF should_ignore(self, join(parts(self.path)))
                   THEN [raised |-> FALSE, files |-> <<>>]
                   ELSE [raised |-> FALSE, files |-> <<self>>]
         ELSE [raised |-> FALSE, files |-> <<>>]

(***************************************************************************)
(* class Group, class WorkspaceIgnore, class Workspace                     *)
(***************************************************************************)

\* Group(name=..., files=[...], symbols=[...])
Group(name, files, symbols) ==
    [name |-> name, description |-> None, system_prompt |-> "",
     files |-> files, symbols |-> symbols]

\* WorkspaceIgnore(): the field defaults
WorkspaceIgnore ==
    [enabled |-> TRUE, patterns |-> <<>>, additional |-> <<>>,
     categories |-> <<"default">>]

\* Workspace.get_ignore_patterns with the overrides added to the defaults
\* of their category instead of replacing them
get_ignore_patterns_merging(self) ==
    IF ~self.ignore.enabled THEN {}
    ELSE LET enabled == UNION { DEFAULT_IGNORE_PATTERNS[c] :
                           c \in Range(self.ignore.categories) \cap DOMAIN DEFAULT_IGNORE_PATTERNS }
             overridden == DOMAIN self.ignore.patterns \cap DOMAIN DEFAULT_IGNORE_PATTERNS
             custom == UNION { Range(self.ignore.patterns[c]) : c \in overridden }
         IN  (enabled \cup custom) \cup Range(self.ignore.additional)

\* Workspace.get_ignore_patterns.  DEFAULT_IGNORE_PATTERNS has one key, so
\* the override loop changes the set for at most one category and the
\* iteration order of ignore.patterns is immaterial.
get_ignore_patterns(self) ==
    IF ~self.ignore.enabled THEN {}
    ELSE LET enabled == UNION { DEFAULT_IGNORE_PATTERNS[c] :
                           c \in Range(self.ignore.categories) \cap DOMAIN DEFAULT_IGNORE_PATTERNS }
             overridden == DOMAIN self.ignore.patterns \cap DOMAIN DEFAULT_IGNORE_PATTERNS
             removed == UNION { DEFAULT_IGNORE_PATTERNS[c] : c \in overridden }
             custom == UNION { Range(self.ignore.patterns[c]) : c \in overridden }
         IN  ((enabled \ removed) \cup custom) \cup Range(self.ignore.additional)

\* {"path": f.path, "description": f.description}
FileEntry(f) == [path |-> f.path, description |-> f.description]

\* File.model_dump()
FileDump(f) == [description |-> f.description, path |-> f.path, kind |-> f.kind]

\* The loop of Group.resolve_patterns over self.files: the per-spec results,
\* in order, stopping at the first resolve that raises.
RECURSIVE resolve_specs(_, _)
resolve_specs(files, fs) ==
    IF files = <<>> THEN [raised |-> FALSE, by_spec |-> <<>>]
    ELSE With(resolve(Head(files), fs), LAMBDA r :
            IF r.raised THEN [raised |-> TRUE, by_spec |-> <<>>]
            ELSE With(resolve_specs(Tail(files), fs), LAMBDA rest :
                    [raised |-> rest.raised, by_spec |-> <<r.files>> \o rest.by_spec]))

\* The per-spec results joined with a path kept only where it comes first.
RECURSIVE extend_all_unique(_)
extend_all_unique(lists) ==
    IF lists = <<>> THEN <<>>
    ELSE LET rest == extend_all_unique(Tail(lists))
         IN  Head(lists)
               \o SelectSeq(rest, LAMBDA f : \A g \in Range(Head(lists)) : g.path # f.path)

\* resolved_files.extend(...) over the per-spec results
RECURSIVE extend_all(_)
extend_all(lists) ==
    IF lists = <<>> THEN <<>> ELSE Head(lists) \o extend_all(Tail(lists))

\* Group.resolve_patterns
Group_resolve_patterns(self, fs) ==
    With(resolve_specs(self.files, fs), LAMBDA r :
      With(extend_all(r.by_spec), LAMBDA resolved_files :
        [raised |-> r.raised,
         by_spec |-> r.by_spec,
         data |-> [name |-> self.name, description |-> self.description,
                   system_prompt |-> self.system_prompt,
                   files |-> [i \in 1..Len(resolved_files) |-> FileEntry(resolved_files[i])],
                   symbols |-> [i \in 1..Len(self.symbols) |-> FileDump(self.symbols[i])]]]))

\* Workspace.resolve_patterns
Workspace_resolve_patterns(self, fs) ==
    With([i \in 1..Len(self.groups) |-> Group_resolve_patterns(self.groups[i], fs)],
         LAMBDA gs :
           [raised |-> \E i \in 1..Len(gs) : gs[i].raised,
            by_spec |-> [i \in 1..Len(gs) |-> gs[i].by_spec],
            data |-> [written |-> TRUE, name |-> self.name,
                      description |-> self.description,
                      system_prompt |-> self.system_prompt,
                      groups |-> [i \in 1..Len(gs) |-> gs[i].data]]])

(***************************************************************************)
(* validate_workspace_files                                                *)
(***************************************************************************)

\* any(char in file.path for char in "*?[]")
has_glob_char(path) == \E c \in {"*", "?", "[", "]"} : contains(path, c)

\* The loop over group.files with wildcard paths checked like the others.
RECURSIVE validate_files_unskipped(_, _)
validate_files_unskipped(files, fs) ==
    IF files = <<>> THEN <<>>
    ELSE LET file == Head(files)
             rest == validate_files_unskipped(Tail(files), fs)
         IN  IF ~exists(fs, file.path)
             THEN <<"File not found: " \o file.path>> \o rest
             ELSE rest

RECURSIVE validate_files(_, _)
validate_files(files, fs) ==
    IF files = <<>> THEN <<>>
    ELSE LET file == Head(files)
             rest == validate_files(Tail(files), fs)
         IN  IF has_glob_char(file.path) THEN rest
             ELSE IF ~exists(fs, file.path)
                  THEN <<"File not found: " \o file.path>> \o rest
                  ELSE rest

RECURSIVE validate_symbols(_, _)
validate_symbols(symbols, fs) ==
    IF symbols = <<>> THEN <<>>
    ELSE LET symbol == Head(symbols)
             rest == validate_symbols(Tail(symbols), fs)
         IN  IF ~exists(fs, symbol.path)
             THEN <<"Symbol file not found: " \o symbol.path>> \o rest
             ELSE rest

RECURSIVE validate_groups(_, _)
validate_groups(groups, fs) ==
    IF groups = <<>> THEN <<>>
    ELSE validate_files(Head(groups).files, fs)
           \o validate_symbols(Head(groups).symbols, fs)
           \o validate_groups(Tail(groups), fs)

\* validate_workspace_files stopping at the first missing path
validate_workspace_files_fail_fast(workspace, fs) ==
    With(validate_groups(workspace.groups, fs), LAMBDA errors :
      IF errors = <<>> THEN <<>> ELSE <<Head(errors)>>)

validate_workspace_files(workspace, fs) == validate_groups(workspace.groups, fs)

(***************************************************************************)
(* Config documents.  A document is what yaml.safe_load returns: the keys  *)
(* present at top level, the keys whose value has the wrong type, and the  *)
(* values.                                                                 *)
(***************************************************************************)

Doc(groups, ignore) ==
    [yaml |-> "ok", keys |-> {"name", "groups", "ignore"}, wrong_type |-> {},
     name |-> "test-project", groups |-> groups, ignore |-> ignore]

Ignore(enabled, patterns, additional, categories) ==
    [enabled |-> enabled, patterns |-> patterns, additional |-> additional,
     categories |-> categories]

OneGroup(files, symbols) == <<Group("Test", files, symbols)>>

\* one pattern over everything, default ignore section
c_all == Doc(OneGroup(<<File("**/*", "All files", "pattern")>>, <<>>), WorkspaceIgnore)

\* patterns mixed with explicit files in ignored places
c_explicit ==
    Doc(OneGroup(<<File("**/*.py", "Python files", "pattern"),
                   File(".git/config", "Important file", "file"),
                   File("src/.env", "Env file", "file"),
                   File("uv.lock", None, "file")>>,
                 <<File("src/main.py", None, "file")>>),
        WorkspaceIgnore)

\* recursive pattern with a directory prefix, and a single-level pattern
c_recursive ==
    Doc(OneGroup(<<File("src/**/*.py", "Source file", "pattern"),
                   File("src/*.py", "Top level", "pattern")>>, <<>>),
        WorkspaceIgnore)

\* a category of its own, listed in categories
c_custom ==
    Doc(OneGroup(<<File("**/*.py", "Test pattern", "pattern")>>, <<>>),
        Ignore(TRUE, ("custom" :> <<"**/test_*.py">>), <<>>, <<"custom">>))

\* the built-in category overridden, plus an additional pattern
c_override ==
    Doc(OneGroup(<<File("**/*", "All files", "pattern")>>, <<>>),
        Ignore(TRUE, ("default" :> <<"custom.lock", "tests/">>), <<"lib/">>, <<"default">>))

\* an override for a category that is not listed in categories; the first
\* pattern is absolute, which pathlib refuses to expand
c_unlisted ==
    Doc(OneGroup(<<File("/etc/*", "System files", "pattern"),
                   File("**/*", "All files", "pattern")>>, <<>>),
        Ignore(TRUE, ("default" :> <<"tests/">>), <<>>, <<>>))

\* ignore switched off
c_disabled ==
    Doc(OneGroup(<<File("**/*", "All files", "pattern")>>, <<>>),
        Ignore(FALSE, <<>>, <<"tests/">>, <<"default">>))

\* two groups with literal files and symbols, some of them never on disk
c_missing ==
    Doc(<<Group("First",
                <<File("nonexistent.py", None, "file"), File("src/main.py", "Main", "file"),
                  File("docs", "Documents", "pattern")>>,
                <<File("also_missing.py", None, "file")>>),
          Group("Second",
                <<File("src/pkg/a.py", None, "file")>>,
                <<File("tests/test_a.py", None, "file")>>)>>,
        WorkspaceIgnore)

\* literal files and symbols, and a pattern that finds one of them again
c_literal ==
    Doc(<<Group("First",
                <<File("src/main.py", "Main", "file"), File("src/empty.py", "Empty", "file")>>,
                <<File("src/pkg/a.py", None, "file")>>),
          Group("Second",
                <<File("tests/*.py", "Tests", "pattern"),
                  File("src", "A directory", "file"), File("tests/test_a.py", None, "file")>>,
                <<File("uv.lock", None, "file")>>)>>,
        WorkspaceIgnore)

\* an explicit file given by an absolute path outside the base directory
c_absolute ==
    Doc(OneGroup(<<File("src/main.py", "Main", "file"),
                   File("/etc/hosts", "Hosts", "file")>>, <<>>),
        WorkspaceIgnore)

\* the output artifact itself is referenced
c_output ==
    Doc(OneGroup(<<File("**/*", "All files", "pattern"),
                   File(OutputName, "Artifact", "file")>>, <<>>),
        WorkspaceIgnore)

Configs ==
    { c_all, c_explicit, c_recursive, c_custom, c_override, c_unlisted,
      c_disabled, c_missing, c_literal, c_absolute, c_output }

\* Workspace(**config) succeeds
schema_ok(config) == "name" \in config.keys /\ config.wrong_type = {}

\* Workspace(**config): missing optional fields take their defaults
Workspace(config) ==
    [name |-> config.name, description |-> None, system_prompt |-> "",
     groups |-> IF "groups" \in config.keys THEN config.groups ELSE <<>>,
     ignore |-> IF "ignore" \in config.keys THEN config.ignore ELSE WorkspaceIgnore]

(***************************************************************************)
(* compile_workspace                                                       *)
(***************************************************************************)

\* if not output_path: output_path = base / "codecompanion-workspace.json"
output_path_of(output_path) == IF output_path = None THEN OutputName ELSE output_path

\* The outcome of one run: terminal status, the exception and the call that
\* raised it, its message lines, the filesystem left behind, and the
\* per-spec resolution results.
Outcome(status, error, raised_at, messages, fs, by_spec) ==
    [status |-> status, error |-> error, raised_at |-> raised_at,
     messages |-> messages, fs |-> fs, by_spec |-> by_spec]

\* with open(output_path, "a") as f: the file is created, or kept as it is
open_a(fs, output_path) ==
    IF fs[output_path].kind = "absent" THEN [fs EXCEPT ![output_path] = Empty] ELSE fs

\* with open(output_path, "w") as f: the file is created or emptied
open_w(fs, output_path) == [fs EXCEPT ![output_path] = Empty]

\* The body of compile_workspace's last statement with the patterns resolved
\* before the output is opened.
write_json_resolved_first(workspace, fs, output_path) ==
    With(Workspace_resolve_patterns(workspace, fs), LAMBDA r :
      IF r.raised
      THEN Outcome("Failed", "ValueError", "resolve_patterns", <<>>, fs, <<>>)
      ELSE Outcome("Success", "", "", <<>>,
                   [fs EXCEPT ![output_path] = [kind |-> "data", doc |-> r.data]],
                   r.by_spec))

\* compile_workspace, last statement: the output is opened for writing, the
\* patterns are resolved, and the JSON text is written.
write_json(workspace, fs, output_path) ==
    LET opened == open_w(fs, output_path)
    IN  With(Workspace_resolve_patterns(workspace, opened), LAMBDA r :
          IF r.raised
          THEN Outcome("Failed", "ValueError", "resolve_patterns", <<>>, opened, <<>>)
          ELSE Outcome("Success", "", "", <<>>,
                       [opened EXCEPT ![output_path] = [kind |-> "data", doc |-> r.data]],
                       r.by_spec))

\* compile_workspace with the output opened before the config is read
compile_workspace_open_first(fs, config, output_arg) ==
    LET output_path == output_path_of(output_arg)
        opened == open_w(fs, output_path)
    IN  IF config.yaml # "ok"
        THEN Outcome("Failed", "YAMLError", "yaml.safe_load", <<>>, opened, <<>>)
        ELSE IF ~schema_ok(config)
        THEN Outcome("Failed", "ValidationError", "Workspace", <<>>, opened, <<>>)
        ELSE With(validate_workspace_files(Workspace(config), fs), LAMBDA errors :
               IF errors # <<>>
               THEN Outcome("Failed", "ValueError", "compile_workspace",
                            <<"Invalid workspace:">> \o errors, opened, <<>>)
               ELSE write_json(Workspace(config), fs, output_path))

compile_workspace(fs, config, output_arg) ==
    LET output_path == output_path_of(output_arg)
    IN  IF config.yaml # "ok"
        THEN Outcome("Failed", "YAMLError", "yaml.safe_load", <<>>, fs, <<>>)
        ELSE IF ~schema_ok(config)
        THEN Outcome("Failed", "ValidationError", "Workspace", <<>>, fs, <<>>)
        ELSE With(validate_workspace_files(Workspace(config), fs), LAMBDA errors :
               IF errors # <<>>
               THEN Outcome("Failed", "ValueError", "compile_workspace",
                            <<"Invalid workspace:">> \o errors, fs, <<>>)
               ELSE write_json(Workspace(config), fs, output_path))

(***************************************************************************)
(* The state machine.                                                      *)
(***************************************************************************)

\* How many changes the user makes to the files of the project.
MaxEdits == 1

VARIABLES
    fs,        \* the filesystem: FsPaths -> file state
    config,    \* the document in .cc/codecompanion.yaml
    last,      \* the outcome of the latest compile run on this filesystem and config
    prev,      \* the outcome of the run before it, when nothing changed in between
    edits,     \* the number of changes made to the files so far
    file,      \* a File object held by a caller of the library
    resolved,  \* what file.resolve(base_path) returned last
    effective, \* what Workspace(**config).get_ignore_patterns() returned last
    proj,      \* the directory init is run on, and the latest run of init
    call       \* a call of a function of the library: its arguments and result

vars == <<fs, config, last, prev, edits, file, resolved, effective, proj, call>>

NoRun == [status |-> "none", error |-> "", raised_at |-> "", messages |-> <<>>,
          before |-> Absent, by_spec |-> <<>>]
NoFile == [description |-> None, path |-> "", kind |-> "none",
           _ignore_patterns |-> NoPatterns]
NoResult == [called |-> FALSE, raised |-> FALSE, files |-> <<>>]
NoPatternSet == [called |-> FALSE, patterns |-> {}]
\* The tools as init finds them: git is there or not, the user.name of the
\* git configuration (None when it is not set), how 'uv add' ends, and the
\* git call that exits with an error.
OkEnv == [git |-> "ok", user_name |-> "John Smith-Doe Jr.", uv |-> "ok",
          git_fail |-> "none"]
NoInit == [called |-> FALSE, asked |-> FALSE, exit_code |-> 0, commands |-> <<>>,
           git_username |-> None,
           force |-> FALSE, template |-> None, answer |-> FALSE,
           git |-> "ok", git_fail |-> "none", uv |-> "ok",
           before |-> [exists |-> FALSE, tree |-> [q \in InitPaths |-> Absent]]]
NoProject == [path |-> ".", exists |-> FALSE, tree |-> [q \in InitPaths |-> Absent],
              env |-> OkEnv, runs |-> 0, run |-> NoInit]
NoCall == [fn |-> "none", called |-> FALSE]

\* The project as the tests lay it out: everything present and non-empty
\* but one zero-length file, and no artifact and no link yet.
InitialFs ==
    [q \in FsPaths |-> IF q = OutputName \/ q \in DOMAIN LinkTarget THEN Absent
                       ELSE IF q = "src/empty.py" THEN Empty
                       ELSE Data]

Init ==
    /\ fs = InitialFs
    /\ config \in Configs
    /\ last = NoRun
    /\ prev = NoRun
    /\ edits = 0
    /\ file = NoFile
    /\ resolved = NoResult
    /\ effective = NoPatternSet
    /\ proj = NoProject
    /\ call = NoCall

\* The command-line arguments of compile-config: no --output.
OutputArgs == {None}

\* compile_config: the CLI command; it runs compile_workspace to the end.
compile_config ==
    \E output \in OutputArgs :
        \E run \in {compile_workspace(fs, config, output)} :
            /\ fs' = run.fs
            /\ last' = [status |-> run.status, error |-> run.error,
                        raised_at |-> run.raised_at, messages |-> run.messages,
                        before |-> fs[output_path_of(output)],
                        by_spec |-> run.by_spec]
            /\ prev' = last
            /\ UNCHANGED <<config, edits, file, resolved, effective, proj, call>>

\* The files the user changes between runs: a file listed explicitly, the
\* zero-length one, a test file, an ignored one and the
\* artifact.
Editable ==
    { "src/main.py", "src/empty.py", "tests/test_a.py", ".git/config", OutputName }

\* A change to the project ends what is known of earlier runs and calls.
Forget ==
    /\ last' = NoRun
    /\ prev' = NoRun
    /\ resolved' = NoResult

\* path.write_text("...")
write_text ==
    \E p \in Editable :
        /\ edits < MaxEdits
        /\ fs[p] # Data
        /\ fs' = [fs EXCEPT ![p] = Data]
        /\ edits' = edits + 1
        /\ Forget
        /\ UNCHANGED <<config, file, effective, proj, call>>

\* path.write_text("") / path.touch()
touch ==
    \E p \in Editable :
        /\ edits < MaxEdits
        /\ fs[p] # Empty
        /\ fs' = [fs EXCEPT ![p] = Empty]
        /\ edits' = edits + 1
        /\ Forget
        /\ UNCHANGED <<config, file, effective, proj, call>>

\* path.unlink()
unlink ==
    \E p \in Editable :
        /\ edits < MaxEdits
        /\ fs[p] # Absent
        /\ fs' = [fs EXCEPT ![p] = Absent]
        /\ edits' = edits + 1
        /\ Forget
        /\ UNCHANGED <<config, file, effective, proj, call>>

\* link.symlink_to(target)
symlink_to ==
    \E l \in DOMAIN LinkTarget :
        /\ edits < MaxEdits
        /\ fs[l] = Absent
        /\ fs' = [fs EXCEPT ![l] = Link]
        /\ edits' = edits + 1
        /\ Forget
        /\ UNCHANGED <<config, file, effective, proj, call>>

\* The ways a config document is broken.
Breakages ==
    { [yaml |-> "error", keys |-> {"name", "groups", "ignore"}, wrong_type |-> {}],
      [yaml |-> "ok", keys |-> {"groups", "ignore"}, wrong_type |-> {}],
      [yaml |-> "ok", keys |-> {"name", "groups", "ignore"}, wrong_type |-> {"groups"}] }

Intact == [yaml |-> "ok", keys |-> {"name", "groups", "ignore"}, wrong_type |-> {}]

\* config_path.write_text(...): the document becomes unparsable, loses its
\* name, or gets a groups value that is not a list.
break_config ==
    \E b \in Breakages :
        /\ config.yaml = "ok" /\ schema_ok(config)
        /\ config' = [config EXCEPT !.yaml = b.yaml, !.keys = b.keys,
                                    !.wrong_type = b.wrong_type]
        /\ Forget
        /\ UNCHANGED <<fs, edits, file, effective, proj, call>>

\* config_path.write_text(...): the document is put right again.
repair_config ==
    /\ ~(config.yaml = "ok" /\ schema_ok(config))
    /\ config' = [config EXCEPT !.yaml = Intact.yaml, !.keys = Intact.keys,
                                !.wrong_type = Intact.wrong_type]
    /\ Forget
    /\ UNCHANGED <<fs, edits, file, effective, proj, call>>

Next ==
    \/ compile_config
    \/ write_text \/ touch \/ unlink
    \/ break_config \/ repair_config

Spec == Init /\ [][Next]_vars

(***************************************************************************)
(* The library used directly: a File is constructed, its ignore patterns   *)
(* are set, and it is resolved against the base directory.                 *)
(***************************************************************************)

\* Patterns of several segments without '**', as the tests of the wildcards
\* use them.
DepthSpecs ==
    { File("src/*/*.py", "One level down", "pattern"),
      File("*/*", "Second level", "pattern") }

\* The file specifications of the configs, and those above.
FileSpecs ==
    UNION { UNION { Range(c.groups[i].files) : i \in 1..Len(c.groups) } : c \in Configs }
        \cup DepthSpecs

\* The pattern sets a caller may install: the effective sets of the configs.
PatternSets == { get_ignore_patterns(Workspace(c)) : c \in Configs }

\* File(path=..., description=..., kind=...)
File_new ==
    \E f \in FileSpecs :
        /\ file # f
        /\ file' = f
        /\ resolved' = NoResult
        /\ UNCHANGED <<fs, config, last, prev, edits, effective, proj, call>>

\* File.ignore_patterns = patterns  (property setter)
set_ignore_patterns ==
    \E P \in PatternSets :
        /\ file.kind # "none"
        /\ file._ignore_patterns # Patterns(P)
        /\ file' = [file EXCEPT !._ignore_patterns = Patterns(P)]
        /\ resolved' = NoResult
        /\ UNCHANGED <<fs, config, last, prev, edits, effective, proj, call>>

\* file.resolve(base_path)
File_resolve ==
    /\ file.kind # "none"
    /\ ~resolved.called
    /\ \E r \in {resolve(file, fs)} :
          resolved' = [called |-> TRUE, raised |-> r.raised, files |-> r.files]
    /\ UNCHANGED <<fs, config, last, prev, edits, file, effective, proj, call>>

NextResolve ==
    \/ File_new \/ set_ignore_patterns \/ File_resolve
    \/ write_text \/ touch \/ unlink \/ symlink_to

InitResolve == Init /\ config = c_all

SpecResolve == InitResolve /\ [][NextResolve]_vars

(***************************************************************************)
(* The ignore section on its own: the document's ignore section is         *)
(* rewritten and the effective pattern set is asked for.                   *)
(***************************************************************************)

\* The ignore sections written: every combination of the switch, the listed
\* categories, the per-category patterns and the additional patterns.
IgnoreSections ==
    { Ignore(enabled, patterns, additional, categories) :
        enabled \in BOOLEAN,
        patterns \in { <<>>,
                       ("default" :> <<"custom.lock", "tests/">>),
                       ("custom" :> <<"**/test_*.py">>),
                       ("default" :> <<"custom.lock", "tests/">>) @@ ("custom" :> <<"**/test_*.py">>) },
        additional \in { <<>>, <<"lib/">> },
        categories \in { <<>>, <<"default">>, <<"custom">>, <<"default", "custom">> } }

\* config_path.write_text(...) with another ignore section
write_ignore ==
    \E section \in IgnoreSections :
        /\ config.ignore # section
        /\ config' = [config EXCEPT !.ignore = section]
        /\ effective' = NoPatternSet
        /\ Forget
        /\ UNCHANGED <<fs, edits, file, proj, call>>

\* Workspace(**config).get_ignore_patterns()
Workspace_get_ignore_patterns ==
    /\ config.yaml = "ok" /\ schema_ok(config)
    /\ ~effective.called
    /\ effective' = [called |-> TRUE, patterns |-> get_ignore_patterns(Workspace(config))]
    /\ UNCHANGED <<fs, config, last, prev, edits, file, resolved, proj, call>>

NextIgnore == write_ignore \/ Workspace_get_ignore_patterns

SpecIgnore == InitResolve /\ [][NextIgnore]_vars

(***************************************************************************)
(* The effective patterns put to use, as a caller of the library does: the *)
(* set is asked for, installed in a File, and the File is resolved.        *)
(***************************************************************************)

\* for file in group.files: file.ignore_patterns = ignore_patterns
use_effective ==
    /\ effective.called
    /\ file.kind # "none"
    /\ file._ignore_patterns # Patterns(effective.patterns)
    /\ file' = [file EXCEPT !._ignore_patterns = Patterns(effective.patterns)]
    /\ resolved' = NoResult
    /\ UNCHANGED <<fs, config, last, prev, edits, effective, proj, call>>

NextEffective ==
    \/ write_ignore \/ Workspace_get_ignore_patterns
    \/ File_new \/ use_effective \/ File_resolve

SpecEffective == InitResolve /\ [][NextEffective]_vars

(***************************************************************************)
(* Properties of File.resolve (SpecResolve).                               *)
(***************************************************************************)

\* The paths of a list of files.
PathsOf(files) == { files[i].path : i \in 1..Len(files) }

\* A path has a segment that starts with a dot.
DotSegment(path) == startswith(path, ".") \/ contains(path, "/.")

\* C1: a pattern File never resolves to a path one of whose segments starts
\* with '.', whatever set of ignore patterns the File carries.
C1_DotPathsExcluded ==
    (resolved.called /\ file.kind = "pattern")
        => \A path \in PathsOf(resolved.files) : ~DotSegment(path)

\* C1 happens: '**/*' is resolved with an empty pattern set while files in a
\* dot-directory and a dot-file are there to be matched, and others come out.
C1_Witness ==
    /\ resolved.called
    /\ file.kind = "pattern" /\ file.path = "**/*"
    /\ file._ignore_patterns = Patterns({})
    /\ fs[".git/config"] = Data /\ fs["src/.env"] = Data
    /\ "node_modules/p.json" \in PathsOf(resolved.files)

\* C2: an explicit File naming a regular non-empty file resolves to exactly
\* one entry, with the path and the description of the File, wherever the
\* path lies and whatever the ignore patterns say.
C2_ExplicitFileResolvesToItself ==
    (resolved.called /\ file.kind = "file"
        /\ is_file(fs, file.path) /\ st_size(fs, file.path) > 0)
        => /\ ~resolved.raised
           /\ Len(resolved.files) = 1
           /\ resolved.files[1].path = file.path
           /\ resolved.files[1].description = file.description

\* A pattern of the form D/**/G: a literal directory, then '**', then a glob
\* of one segment.
RecursiveAt(path, i) ==
    /\ SubSeq(path, i, i + 3) = "/**/"
    /\ ~has_glob_char(SubSeq(path, 1, i - 1))
    /\ ~contains(SubSeq(path, i + 4, Len(path)), "/")
    /\ ~contains(SubSeq(path, i + 4, Len(path)), "**")
IsRecursiveForm(path) == \E i \in 2..(Len(path) - 4) : RecursiveAt(path, i)
DirOf(path) == SubSeq(path, 1, (CHOOSE i \in 2..(Len(path) - 4) : RecursiveAt(path, i)) - 1)
GlobOf(path) == SubSeq(path, (CHOOSE i \in 2..(Len(path) - 4) : RecursiveAt(path, i)) + 4, Len(path))

\* The last segment of a path.
NameOf(path) == parts(path)[Len(parts(path))]

\* The regular, non-empty, non-ignored files below D whose name matches G.
FilesBeneath(f) ==
    { q \in FsPaths :
        /\ fs[q].kind = "data"
        /\ startswith(q, DirOf(f.path) \o "/")
        /\ fnmatch(NameOf(q), GlobOf(f.path))
        /\ ~should_ignore(f, q) }

\* C3: a pattern D/**/G resolves to exactly the regular, non-empty,
\* non-ignored files below D, at any depth, whose name matches G.
C3_RecursivePatternBelowPrefix ==
    (resolved.called /\ file.kind = "pattern" /\ IsRecursiveForm(file.path))
        => PathsOf(resolved.files) = FilesBeneath(file)

(***************************************************************************)
(* Properties of compile_workspace (Spec).                                 *)
(***************************************************************************)

\* The artifact on disk.
Artifact == fs[OutputName].doc

\* The filesystem as the latest run found it.
FsBefore == [fs EXCEPT ![OutputName] = last.before]

\* The latest run got as far as a Workspace object.
Loaded == last.status # "none" /\ config.yaml = "ok" /\ schema_ok(config)

\* The positions <<g, i>> of the file entries of the config.
Entries_of(cfg) ==
    UNION { { <<g, i>> : i \in 1..Len(cfg.groups[g].files) } : g \in 1..Len(cfg.groups) }

\* A pattern of the ignore section matches a path: shell-glob matching of
\* the whole path for a pattern with '*', substring otherwise.
PatternMatches(path, pattern) ==
    IF contains(pattern, "*") THEN fnmatch(path, pattern) ELSE contains(path, pattern)

\* The patterns the ignore section declares: those given for the listed
\* categories, and the additional ones.
Declared(ignore) ==
    IF ignore.enabled
    THEN UNION { Range(ignore.patterns[c]) :
                    c \in Range(ignore.categories) \cap DOMAIN ignore.patterns }
         \cup Range(ignore.additional)
    ELSE {}

\* C4: in a compiled artifact no pattern-derived entry matches a pattern
\* that the config's ignore section declares.
C4_DeclaredPatternsFilterArtifact ==
    (Loaded /\ last.status = "Success")
        => \A e \in Entries_of(config) :
              config.groups[e[1]].files[e[2]].kind = "pattern"
                 => \A path \in PathsOf(last.by_spec[e[1]][e[2]]) :
                       \A pattern \in Declared(config.ignore) :
                          ~PatternMatches(path, pattern)

\* The messages validation owes for a list of entries, in their order.
Missing(entries, prefix) ==
    LET missing == SelectSeq(entries, LAMBDA f : ~exists(FsBefore, f.path))
    IN  [k \in 1..Len(missing) |-> prefix \o missing[k].path]

\* The literal entries of a list of files: those without a wildcard character.
Literal(files) ==
    SelectSeq(files, LAMBDA f : \A c \in {"*", "?", "[", "]"} : ~contains(f.path, c))

RECURSIVE Owed(_)
Owed(groups) ==
    IF groups = <<>> THEN <<>>
    ELSE Missing(Literal(Head(groups).files), "File not found: ")
           \o Missing(Head(groups).symbols, "Symbol file not found: ")
           \o Owed(Tail(groups))

\* C5: validation reports every missing literal file and every missing
\* symbol in one error, headed 'Invalid workspace:', in encounter order and
\* with no message for a path that exists; the run fails exactly when there
\* is something to report.
C5_ValidationIsExhaustive ==
    Loaded =>
        /\ (Owed(config.groups) # <<>>)
              => /\ last.status = "Failed" /\ last.error = "ValueError"
                 /\ last.messages = <<"Invalid workspace:">> \o Owed(config.groups)
        /\ (Owed(config.groups) = <<>>) => last.messages = <<>>

\* C5 happens: a run fails with a file message and symbol messages from two
\* groups.
C5_Witness ==
    /\ Loaded /\ last.status = "Failed"
    /\ last.messages = <<"Invalid workspace:", "File not found: nonexistent.py",
                         "File not found: docs",
                         "Symbol file not found: also_missing.py",
                         "Symbol file not found: tests/test_a.py">>

\* C6: after a successful compile every entry of kind file is among its
\* group's resolved files in the artifact, and a run whose config has an
\* entry of kind file that cannot be included fails in validation.
C6_NoExplicitFileDropped ==
    Loaded =>
        \A e \in Entries_of(config) :
            LET f == config.groups[e[1]].files[e[2]]
            IN  f.kind = "file" =>
                  /\ last.status = "Success"
                        => f.path \in PathsOf(Artifact.groups[e[1]].files)
                  /\ ~(is_file(FsBefore, f.path) /\ st_size(FsBefore, f.path) > 0)
                        => (last.status = "Failed" /\ last.raised_at = "compile_workspace")

\* C7: a run ends in Success or Failed, and a failed run leaves the output
\* artifact as it was before the run (absent, or with the same content).
C7_FailedRunLeavesArtifact ==
    last.status # "none" =>
        /\ last.status \in {"Success", "Failed"}
        /\ last.status = "Failed" => fs[OutputName] = last.before

\* C8: a run that fails on an unparsable or schema-invalid config, or in
\* validation, leaves the output artifact as it was.
C8_EarlyFailureKeepsArtifact ==
    (last.status = "Failed"
        /\ last.raised_at \in {"yaml.safe_load", "Workspace", "compile_workspace"})
        => fs[OutputName] = last.before

\* C8 happens: validation fails while an artifact of an earlier successful
\* run is on disk.
C8_Witness ==
    /\ last.status = "Failed" /\ last.raised_at = "compile_workspace"
    /\ last.before.doc.written
    /\ fs[OutputName] = last.before

\* C9: of two runs in a row with nothing changed in between, the second
\* succeeds when the first did and writes the same artifact.
C9_CompileIsIdempotent ==
    prev.status = "Success"
        => /\ last.status = "Success"
           /\ fs[OutputName] = last.before
           /\ last.by_spec = prev.by_spec

\* C9 happens: two successful runs in a row of a config with the pattern
\* '**/*' and an entry for the artifact itself.
C9_Witness ==
    /\ prev.status = "Success" /\ last.status = "Success"
    /\ config = c_output
    /\ Artifact.written /\ Len(Artifact.groups[1].files) > 0

(***************************************************************************)
(* Properties of Workspace.get_ignore_patterns (SpecIgnore).               *)
(***************************************************************************)

\* Per listed category: the override if there is one, else the built-in
\* defaults (none for an unknown category); plus the additional patterns.
EffectiveAsSpecified(ignore) ==
    IF ~ignore.enabled THEN {}
    ELSE UNION { IF c \in DOMAIN ignore.patterns THEN Range(ignore.patterns[c])
                 ELSE IF c \in DOMAIN DEFAULT_IGNORE_PATTERNS
                      THEN DEFAULT_IGNORE_PATTERNS[c]
                      ELSE {} : c \in Range(ignore.categories) }
         \cup Range(ignore.additional)

\* C10: get_ignore_patterns returns the empty set when ignore is disabled,
\* and otherwise the union over the listed categories of the override or
\* else the defaults, with the additional patterns.
C10_EffectivePatterns ==
    effective.called => effective.patterns = EffectiveAsSpecified(config.ignore)

(***************************************************************************)
(* Properties of the effective patterns in use (SpecEffective).            *)
(***************************************************************************)

\* The File in hand carries the effective patterns of the config, whose
\* ignore section overrides the listed built-in category c.
Overrides(c) ==
    /\ effective.called
    /\ file._ignore_patterns = Patterns(effective.patterns)
    /\ config.ignore.enabled
    /\ c \in Range(config.ignore.categories)
    /\ c \in DOMAIN config.ignore.patterns

\* The patterns the ignore section lists itself for category c.
Relisted(c) == Range(config.ignore.patterns[c]) \cup Range(config.ignore.additional)

\* What a File without any ignore pattern resolves to.
UnfilteredIn(f, tree) ==
    PathsOf(resolve([f EXCEPT !._ignore_patterns = Patterns({})], tree).files)
Unfiltered(f) == UnfilteredIn(f, fs)

FsResolved == open_w(FsBefore, OutputName)

\* C12: with ignore.enabled false, a pattern entry of a compiled config has
\* in the artifact every regular non-empty candidate without a dot segment.
C12_DisabledIgnoreExcludesNothing ==
    (Loaded /\ last.status = "Success" /\ ~config.ignore.enabled)
        => \A e \in Entries_of(config) :
              LET f == config.groups[e[1]].files[e[2]]
              IN  f.kind = "pattern"
                    => PathsOf(last.by_spec[e[1]][e[2]]) = UnfilteredIn(f, FsResolved)

\* C13: no file of length zero is among the resolved files, and an explicit
\* File naming one resolves to the empty list.
C13_NoZeroLengthFile ==
    resolved.called =>
        /\ \A path \in PathsOf(resolved.files) : st_size(fs, path) > 0
        /\ (file.kind = "file" /\ is_file(fs, file.path) /\ st_size(fs, file.path) = 0)
              => (~resolved.raised /\ resolved.files = <<>>)

\* C13 happens: 'src/*.py' is resolved with src/empty.py of length zero
\* beside a file with content.
C13_Witness ==
    /\ resolved.called /\ file.kind = "pattern" /\ file.path = "src/*.py"
    /\ fs["src/empty.py"] = Empty
    /\ PathsOf(resolved.files) = {"src/main.py"}

\* The paths of a list of files, in order.
PathSeq(files) == [i \in 1..Len(files) |-> files[i].path]

\* C17 as stated: the files of a pattern come in ascending order of their
\* relative paths compared as strings.
C17_OrderedAsStrings ==
    (resolved.called /\ file.kind = "pattern")
        => \A i, j \in 1..Len(resolved.files) :
              i < j => str_less(resolved.files[i].path, resolved.files[j].path)

\* C17 amended: the files of a pattern come in ascending order of their
\* relative paths compared segment by segment, as Path objects compare.
C17_OrderedAsPaths ==
    (resolved.called /\ file.kind = "pattern")
        => \A i, j \in 1..Len(resolved.files) :
              i < j => parts_less(parts(resolved.files[i].path),
                                  parts(resolved.files[j].path))

\* C17 happens: a file below src/ comes before src.txt, which as a string
\* is the smaller.
C17_Witness ==
    /\ resolved.called /\ file.kind = "pattern"
    /\ \E i, j \in 1..Len(resolved.files) :
          /\ i < j
          /\ resolved.files[i].path = "src/main.py"
          /\ resolved.files[j].path = "src.txt"

\* The lists of a list one after the other.
RECURSIVE Concatenation(_)
Concatenation(lists) ==
    IF lists = <<>> THEN <<>>
    ELSE lists[1] \o Concatenation(SubSeq(lists, 2, Len(lists)))

\* C18: the groups of the artifact are those of the config in order, and
\* the files of each are the results of its file entries one after the
\* other in entry order, nothing removed.
C18_GroupFilesAreConcatenation ==
    (Loaded /\ last.status = "Success")
        => /\ Len(Artifact.groups) = Len(config.groups)
           /\ \A g \in 1..Len(config.groups) :
                 /\ Artifact.groups[g].name = config.groups[g].name
                 /\ PathSeq(Artifact.groups[g].files)
                       = PathSeq(Concatenation(
                            [i \in 1..Len(config.groups[g].files) |->
                                resolve(config.groups[g].files[i], FsResolved).files]))

\* C18 happens: a pattern and an explicit entry of one group yield the same
\* path, which the artifact lists twice.
C18_Witness ==
    /\ Loaded /\ last.status = "Success" /\ config = c_literal
    /\ PathSeq(Artifact.groups[2].files) = <<"tests/test_a.py", "tests/test_a.py">>

\* C19 as stated: no entry of kind pattern gets a 'File not found' message.
C19_PatternKindNeverReported ==
    Loaded =>
        \A e \in Entries_of(config) :
            LET f == config.groups[e[1]].files[e[2]]
            IN  f.kind = "pattern"
                  => ("File not found: " \o f.path) \notin Range(last.messages)

\* C19 amended: no entry whose path has a wildcard character (* ? [ ]) gets
\* a 'File not found' message, whatever it matches.
C19_WildcardNeverReported ==
    Loaded =>
        \A e \in Entries_of(config) :
            LET f == config.groups[e[1]].files[e[2]]
            IN  has_glob_char(f.path)
                  => ("File not found: " \o f.path) \notin Range(last.messages)

\* C19 happens: 'src/*.py' matches nothing and the run succeeds.
C19_Witness ==
    /\ Loaded /\ last.status = "Success" /\ config = c_recursive
    /\ fs["src/main.py"] = Absent
    /\ last.by_spec[1][2] = <<>>

\* Expanding the pattern of a File raises.
ExpansionRaises(f, tree) ==
    /\ f.kind = "pattern"
    /\ IF contains(f.path, "**") THEN rglob(tree, remove_all(f.path, "**/")).raised
       ELSE glob(tree, f.path).raised

\* C20: when the expansion of a pattern entry raises in a run that passed
\* validation, the run succeeds, the entry has no files and every other
\* entry has what it resolves to.
C20_ExpansionErrorIsContained ==
    (Loaded /\ Owed(config.groups) = <<>>
        /\ \E e \in Entries_of(config) :
               ExpansionRaises(config.groups[e[1]].files[e[2]], FsResolved))
        => /\ last.status = "Success" /\ Artifact.written
           /\ \A e \in Entries_of(config) :
                 LET f == config.groups[e[1]].files[e[2]]
                 IN  last.by_spec[e[1]][e[2]] =
                        IF ExpansionRaises(f, FsResolved) THEN <<>>
                        ELSE resolve(f, FsResolved).files

\* C20 happens: the absolute pattern '/etc/*' yields nothing and the
\* pattern after it yields its files.
C20_Witness ==
    /\ Loaded /\ last.status = "Success" /\ config = c_unlisted
    /\ last.by_spec[1][1] = <<>>
    /\ Len(last.by_spec[1][2]) > 0

(***************************************************************************)
(* init: the scaffold of a new project, the workspace files, and the first *)
(* compile.  The subprocesses are inputs: whether git and uv are there and *)
(* which call exits with an error.                                         *)
(***************************************************************************)

ConfigName == ".cc/codecompanion.yaml"

\* re.sub(r"[-.]", "_", name.lower()), for names in lower case
RECURSIVE to_package_name(_)
to_package_name(name) ==
    IF name = "" THEN ""
    ELSE (IF SubSeq(name, 1, 1) \in {"-", "."} THEN "_" ELSE SubSeq(name, 1, 1))
            \o to_package_name(SubSeq(name, 2, Len(name)))

\* The names in TEMPLATES.
TEMPLATES == {"default"}

\* The default template rendered with a project name: the conventions file
\* named explicitly and one pattern over everything.
default_template(project_name) ==
    [Doc(<<Group("Project",
                 <<File(".cc/data/CONVENTIONS.md", "Project conventions", "file"),
                   File("**/*", "All project files", "pattern")>>,
                 <<>>)>>,
         WorkspaceIgnore) EXCEPT !.name = project_name]

\* path.write_text(content) for each of a set of paths
write_all(tree, paths) == [q \in DOMAIN tree |-> IF q \in paths THEN Data ELSE tree[q]]

\* path.touch(): an absent file appears with length zero
touch_file(tree, path) ==
    [tree EXCEPT ![path] = IF tree[path].kind = "absent" THEN Empty ELSE tree[path]]

\* ProjectInitializer._get_git_username: the calls it makes and what it
\* returns.  Without git, or when 'git config user.name' exits with an error
\* (no name is set), it is "username"; otherwise the name in lower case
\* with everything but letters and digits removed.
_get_git_username(git, user_name) ==
    IF git = "missing"
    THEN [commands |-> <<"git --version">>, returned |-> "username"]
    ELSE [commands |-> <<"git --version", "git config user.name">>,
          returned |-> IF user_name = None THEN "username"
                       ELSE alnum_only(lower(user_name))]

\* PYPROJECT_CONTENT.format(package_name=..., git_username=...): the URLs
PYPROJECT_CONTENT(package_name, git_username) ==
    [kind |-> "data",
     doc |-> [written |-> FALSE,
              homepage |-> "https://github.com/" \o git_username \o "/" \o package_name,
              repository |-> "https://github.com/" \o git_username \o "/" \o package_name]]

\* ProjectInitializer._install_dev_tools with no error caught
_install_dev_tools_uncaught(uv) ==
    [commands |-> <<"uv add --dev">>, raised |-> uv # "ok"]

\* ProjectInitializer._install_dev_tools: the call it makes.
\* CalledProcessError and FileNotFoundError are caught, any other error
\* leaves the method.
_install_dev_tools(uv) ==
    [commands |-> <<"uv add --dev">>, raised |-> uv = "oserror"]

\* ProjectInitializer._init_git: the calls it makes.  Nothing follows
\* 'git --version' without git, and nothing follows the first call that
\* exits with an error.
_init_git(git, git_fail) ==
    IF git = "missing" THEN <<"git --version">>
    ELSE <<"git --version", "git init --quiet">>
           \o (IF git_fail = "init" THEN <<>>
               ELSE <<"git add .">>
                      \o (IF git_fail = "add" THEN <<>>
                          ELSE <<"git commit --quiet -m">>))

\* The files create_structure writes, and the one it touches.
scaffold(tree, package_name, git_username) ==
    [touch_file(write_all(tree, { "README.md", "CHANGELOG.md", ".gitignore",
                                  package_name \o "/__init__.py",
                                  package_name \o "/main.py",
                                  "tests/test_basic.py", "scripts/ccw_check.sh" }),
                "tests/__init__.py")
       EXCEPT !["pyproject.toml"] = PYPROJECT_CONTENT(package_name, git_username)]

\* ProjectInitializer.create_structure with the repository initialised
\* before the development tools are installed
create_structure_git_first(tree, package_name, env) ==
    [commands |-> _get_git_username(env.git, env.user_name).commands
                     \o _init_git(env.git, env.git_fail)
                     \o _install_dev_tools(env.uv).commands,
     git_username |-> _get_git_username(env.git, env.user_name).returned,
     tree |-> scaffold(tree, package_name,
                       _get_git_username(env.git, env.user_name).returned)]

\* ProjectInitializer.create_structure
create_structure(tree, package_name, env) ==
    [commands |-> _get_git_username(env.git, env.user_name).commands
                     \o _install_dev_tools(env.uv).commands
                     \o (IF _install_dev_tools(env.uv).raised THEN <<>>
                         ELSE _init_git(env.git, env.git_fail)),
     git_username |-> _get_git_username(env.git, env.user_name).returned,
     tree |-> scaffold(tree, package_name,
                       _get_git_username(env.git, env.user_name).returned)]

\* ensure_cc_structure: the data files are written where there are none
ensure_cc_structure(tree) ==
    [q \in DOMAIN tree |->
        IF q \in {".cc/data/CONVENTIONS.md", ".cc/data/codecompanion_doc.md"}
              /\ tree[q].kind = "absent"
        THEN Data ELSE tree[q]]

\* create_workspace: the config file is opened for writing and what
\* workspace.resolve_patterns returns is dumped into it.
create_workspace(tree, project_name, template_name) ==
    LET cc == ensure_cc_structure(tree)
        name == IF template_name = None THEN "default" ELSE template_name
    IN  IF name \notin TEMPLATES THEN [raised |-> TRUE, tree |-> cc]
        ELSE LET opened == open_w(cc, ConfigName)
             IN  With(Workspace_resolve_patterns(
                          Workspace(default_template(project_name)), opened),
                      LAMBDA r :
                        IF r.raised THEN [raised |-> TRUE, tree |-> opened]
                        ELSE [raised |-> FALSE,
                              tree |-> [opened EXCEPT ![ConfigName] =
                                           [kind |-> "data", doc |-> r.data]]])

\* yaml.safe_load of a file that create_workspace wrote: the keys of the
\* dump, and file entries that carry a path and a description only.
safe_load(doc) ==
    [yaml |-> "ok", keys |-> {"name", "description", "system_prompt", "groups"},
     wrong_type |-> {}, name |-> doc.name,
     groups |-> [g \in 1..Len(doc.groups) |->
                   [name |-> doc.groups[g].name,
                    description |-> doc.groups[g].description,
                    system_prompt |-> doc.groups[g].system_prompt,
                    files |-> [i \in 1..Len(doc.groups[g].files) |->
                                 File(doc.groups[g].files[i].path,
                                      doc.groups[g].files[i].description, "file")],
                    symbols |-> [i \in 1..Len(doc.groups[g].symbols) |->
                                   File(doc.groups[g].symbols[i].path,
                                        doc.groups[g].symbols[i].description,
                                        doc.groups[g].symbols[i].kind)]]],
     ignore |-> WorkspaceIgnore]

\* The result of one run of init.
InitResult(asked, exit_code, made, present, tree) ==
    [asked |-> asked, exit_code |-> exit_code, commands |-> made.commands,
     git_username |-> made.git_username, exists |-> present, tree |-> tree]

\* init before create_structure is called: no tool was run
NotMade(tree) == [commands |-> <<>>, git_username |-> None, tree |-> tree]

\* init from the point where the project and the workspace are created:
\* the scaffold for a new project, then create_workspace, then
\* compile_workspace on the config just written.  Any exception ends the
\* command with exit code 1.
init_create(p, create_project, template, asked) ==
    LET project_name == IF create_project THEN p.path ELSE "workdir"
    IN  With(IF create_project
             THEN create_structure(p.tree, to_package_name(project_name), p.env)
             ELSE NotMade(p.tree),
             LAMBDA made :
        With(create_workspace(made.tree, project_name, template), LAMBDA ws :
          IF ws.raised
          THEN InitResult(asked, 1, made, TRUE, ws.tree)
          ELSE With(compile_workspace(ws.tree, safe_load(ws.tree[ConfigName].doc), None),
                    LAMBDA run :
                      InitResult(asked, IF run.status = "Success" THEN 0 ELSE 1,
                                 made, TRUE, run.fs))))

\* init without the question about a directory that is already there
init_command_unasked(p, force, template, answer) ==
    IF template # None /\ template \notin TEMPLATES
    THEN InitResult(FALSE, 1, NotMade(p.tree), p.exists, p.tree)
    ELSE init_create(p, p.path # ".", template, FALSE)

\* The body of the command init.
init_command(p, force, template, answer) ==
    IF template # None /\ template \notin TEMPLATES
    THEN InitResult(FALSE, 1, NotMade(p.tree), p.exists, p.tree)
    ELSE IF p.path = "."
    THEN init_create(p, FALSE, template, FALSE)
    ELSE IF p.exists /\ ~force
    THEN IF ~answer
         THEN InitResult(TRUE, 0, NotMade(p.tree), p.exists, p.tree)
         ELSE init_create(p, TRUE, template, TRUE)
    ELSE init_create(p, TRUE, template, FALSE)

\* How often init is run.
MaxInits == 1

\* What the command line gives.
TemplateArgs == {None, "custom"}

\* How the tools behave where init runs: git is there or not, a user name
\* is set or not, 'uv add' succeeds, exits with an error (or is not there,
\* which is handled alike), or fails to start otherwise; one of the git
\* calls may exit with an error.
GitStates == {"ok", "missing"}
UserNames == {None, "John Smith-Doe Jr."}
UvOutcomes == {"ok", "failed", "oserror"}
GitFailures == {"none", "init", "add"}
Envs ==
    { e \in [git : GitStates, user_name : UserNames, uv : UvOutcomes,
             git_fail : GitFailures] :
        e.git = "missing" => e.user_name = None /\ e.git_fail = "none" }

compileVars == <<fs, config, last, prev, edits, file, resolved, effective, call>>

\* init: the CLI command, run to its end on the project directory.  The
\* user is asked only about a named directory that is there, and the tools
\* are run only for a named directory.
init ==
    /\ proj.runs < MaxInits
    /\ \E force \in BOOLEAN, template \in TemplateArgs :
      \E answer \in IF proj.path # "." /\ proj.exists /\ ~force THEN BOOLEAN ELSE {FALSE} :
        \E r \in {init_command(proj, force, template, answer)} :
            /\ proj' = [proj EXCEPT
                          !.exists = r.exists, !.tree = r.tree,
                          !.runs = proj.runs + 1,
                          !.run = [called |-> TRUE, asked |-> r.asked,
                                   exit_code |-> r.exit_code,
                                   commands |-> r.commands,
                                   git_username |-> r.git_username,
                                   force |-> force, template |-> template,
                                   answer |-> answer,
                                   git |-> proj.env.git,
                                   git_fail |-> proj.env.git_fail,
                                   uv |-> proj.env.uv,
                                   before |-> [exists |-> proj.exists,
                                               tree |-> proj.tree]]]
            /\ UNCHANGED compileVars

\* shutil.rmtree(project_path): the user removes the project again
rmtree ==
    /\ proj.path # "." /\ proj.exists
    /\ proj' = [proj EXCEPT !.exists = FALSE, !.tree = NoProject.tree, !.run = NoInit]
    /\ UNCHANGED compileVars

\* The user empties or deletes a file of the project directory.
EditableInit == {".cc/data/CONVENTIONS.md", "existing.txt"}
edit_project ==
    \E q \in EditableInit, state \in {Absent, Empty} :
        /\ proj.exists /\ proj.tree[q] = Data
        /\ proj' = [proj EXCEPT !.tree[q] = state, !.run = NoInit]
        /\ UNCHANGED compileVars

NextInit == init \/ rmtree \/ edit_project

\* The directories init starts on: the current directory or a project
\* name, the latter not there yet or there with a file of the user's.
InitProjects ==
    { [NoProject EXCEPT !.path = ".", !.exists = TRUE],
      [NoProject EXCEPT !.path = ".", !.exists = TRUE, !.tree["existing.txt"] = Data] }
    \cup UNION { { [NoProject EXCEPT !.path = "test-proj", !.env = e],
                   [NoProject EXCEPT !.path = "test-proj", !.exists = TRUE, !.env = e,
                                     !.tree["existing.txt"] = Data] } : e \in Envs }

InitInit ==
    /\ fs = InitialFs /\ config = c_all
    /\ last = NoRun /\ prev = NoRun /\ edits = 0
    /\ file = NoFile /\ resolved = NoResult /\ effective = NoPatternSet
    /\ proj \in InitProjects
    /\ call = NoCall

SpecInit == InitInit /\ [][NextInit]_vars

(***************************************************************************)
(* Properties of init (SpecInit).                                          *)
(***************************************************************************)

\* The latest run of init went through to the end and created the workspace.
Created ==
    /\ proj.run.called /\ proj.run.exit_code = 0
    /\ ~(proj.run.asked /\ ~proj.run.answer)

\* The kind of a file entry as a config file gives it: 'file' when the
\* entry has no kind.
KindOf(entry) == IF "kind" \in DOMAIN entry THEN entry.kind ELSE "file"

\* The file entries of a group as path and kind, in order.
EntriesAsWritten(files) ==
    [i \in 1..Len(files) |-> <<files[i].path, KindOf(files[i])>>]

\* C14: after init the config file has the file entries of the template
\* as they are: the pattern '**/*' of kind pattern, and the conventions
\* file as the only entry of kind file.
C14_InitPreservesPatterns ==
    Created =>
        EntriesAsWritten(proj.tree[ConfigName].doc.groups[1].files)
            = EntriesAsWritten(default_template("test-proj").groups[1].files)

\* The calls of git from position i on, 'git --version' left out.
GitFrom(commands, i) ==
    SelectSeq(SubSeq(commands, i, Len(commands)),
              LAMBDA c : startswith(c, "git ") /\ c # "git --version")

\* The positions of a command in the list of calls.
PositionsOf(commands, c) == { i \in 1..Len(commands) : commands[i] = c }

\* Every 'uv add' comes before every 'git init'.
UvBeforeGit(commands) ==
    \A u \in PositionsOf(commands, "uv add --dev"),
       g \in PositionsOf(commands, "git init --quiet") : u < g

\* C15 as stated: 'uv add' comes before 'git init', and from 'git init' on
\* the calls of git are init, add, commit, each once.
C15_GitAfterDepsAllThree ==
    proj.run.called =>
        /\ UvBeforeGit(proj.run.commands)
        /\ \A g \in PositionsOf(proj.run.commands, "git init --quiet") :
              GitFrom(proj.run.commands, g)
                 = <<"git init --quiet", "git add .", "git commit --quiet -m">>

\* C15 amended: 'uv add' comes before 'git init', and from 'git init' on
\* the calls of git are init, add, commit in that order, each once, up to
\* and including the first of init and add that exits with an error.
C15_GitAfterDepsUntilFailure ==
    proj.run.called =>
        /\ UvBeforeGit(proj.run.commands)
        /\ \A g \in PositionsOf(proj.run.commands, "git init --quiet") :
              GitFrom(proj.run.commands, g)
                 = IF proj.run.git_fail = "init" THEN <<"git init --quiet">>
                   ELSE IF proj.run.git_fail = "add"
                        THEN <<"git init --quiet", "git add .">>
                   ELSE <<"git init --quiet", "git add .", "git commit --quiet -m">>

\* C15 happens: a new project is created, 'uv add' is run, and the three
\* calls of git follow.
C15_Witness ==
    /\ Created /\ proj.path = "test-proj" /\ ~proj.run.before.exists
    /\ proj.run.commands = <<"git --version", "git config user.name", "uv add --dev",
                              "git --version", "git init --quiet", "git add .",
                              "git commit --quiet -m">>

\* The latest run of init left the directory as it found it and ran nothing.
Untouched ==
    /\ proj.exists = proj.run.before.exists
    /\ proj.tree = proj.run.before.tree
    /\ proj.run.commands = <<>>

\* The workspace files are there after a run that ended well.
WorkspaceCreated ==
    /\ proj.run.exit_code = 0
    /\ proj.tree[ConfigName].kind = "data"
    /\ proj.tree[OutputName].kind = "data" /\ proj.tree[OutputName].doc.written

\* What C16 says of a run of init.
AsksAsStated ==
    /\ (proj.path # "." /\ proj.run.before.exists /\ ~proj.run.force)
          => /\ proj.run.asked
             /\ ~proj.run.answer => (proj.run.exit_code = 0 /\ Untouched)
    /\ (proj.run.force \/ proj.path = ".")
          => (~proj.run.asked /\ WorkspaceCreated)

\* C16 as stated: on a named directory that is there and without --force
\* init asks, and a refusal ends it with code 0 and nothing changed or
\* run; with --force or for '.' it does not ask and creates the workspace.
C16_AsksBeforeExisting ==
    proj.run.called => AsksAsStated

\* C16 amended: the same whenever --template is left out or names a known
\* template; with an unknown template init ends with code 1 without
\* asking, nothing changed or run.
C16_AsksBeforeExistingKnownTemplate ==
    proj.run.called =>
        IF proj.run.template = None \/ proj.run.template \in TEMPLATES
        THEN AsksAsStated
        ELSE ~proj.run.asked /\ proj.run.exit_code = 1 /\ Untouched

\* C16 happens: the user refuses for a directory with a file of their own,
\* and the directory is as before.
C16_Witness ==
    /\ proj.run.called /\ proj.run.asked /\ ~proj.run.answer
    /\ proj.run.exit_code = 0
    /\ proj.tree["existing.txt"] = Data
    /\ proj.tree[ConfigName] = Absent
    /\ Untouched

(***************************************************************************)
(* Properties of the default ignore patterns (SpecResolve).                *)
(***************************************************************************)

\* The lock files of the package managers.
LockNames ==
    { "uv.lock", "poetry.lock", "package-lock.json", "yarn.lock", "pnpm-lock.yaml",
      "Cargo.lock", "Gemfile.lock", "composer.lock", "mix.lock", "go.sum" }

\* The directories the default patterns name.
DefaultDirs ==
    { "node_modules", "venv", "__pycache__", "target", "dist", "build", "coverage",
      "tmp", "temp" }

\* A path lies under a directory named by a default directory pattern.
UnderDefaultDir(path) ==
    LET pp == parts(path)
    IN  \E i \in 1..(Len(pp) - 1) :
            pp[i] \in DefaultDirs \/ fnmatch(pp[i], "*.egg-info")

\* The File carries every default pattern.
DefaultsInEffect(f) ==
    DEFAULT_IGNORE_PATTERNS["default"] \subseteq ignore_patterns(f)

\* C21: with the default patterns in effect a pattern File never resolves
\* to a package-manager lock file, nor to a file under a directory that a
\* default directory pattern names (a '*.egg-info' directory included).
C21_DefaultsExcludeLocksAndDirs ==
    (resolved.called /\ file.kind = "pattern" /\ DefaultsInEffect(file))
        => \A path \in PathsOf(resolved.files) :
              /\ NameOf(path) \notin LockNames
              /\ ~UnderDefaultDir(path)

(***************************************************************************)
(* Properties of File.resolve with symbolic links (SpecResolve).           *)
(***************************************************************************)

\* The parts lie inside a directory whose name starts with a dot.
InDotDir(pp) == \E i \in 1..(Len(pp) - 1) : startswith(pp[i], ".")

\* The links to a regular, non-empty file that is not hidden.
OrdinaryLinks ==
    { l \in Links(fs) :
        LET target == Real(fs, <<l>>)
        IN  /\ FileAt(fs, target).kind = "data"
            /\ \A i \in 1..Len(target) : ~startswith(target[i], ".") }

\* No resolved path of a pattern File denotes, itself or through a link, a
\* file inside a dot-directory.
NoPathIntoDotDir ==
    (resolved.called /\ file.kind = "pattern")
        => \A path \in PathsOf(resolved.files) : ~InDotDir(Real(fs, parts(path)))

\* '**/*' yields a link to an ordinary regular non-empty file under the
\* link's own name, unless a pattern of the File matches that name.
OrdinaryLinkIncluded ==
    (resolved.called /\ file.kind = "pattern" /\ file.path = "**/*")
        => \A l \in OrdinaryLinks :
              (\A pattern \in ignore_patterns(file) : ~PatternMatches(l, pattern))
                 => l \in PathsOf(resolved.files)

\* C22: links do not defeat the exclusion of dot-directories: no resolved
\* path of a pattern File denotes, itself or through a link, a file inside
\* a dot-directory, and a link to an ordinary regular non-empty file is
\* included under the link's own path.
C22_LinksKeepDotDirsOut == NoPathIntoDotDir /\ OrdinaryLinkIncluded

(***************************************************************************)
(* File.should_ignore called on its own: a pattern File with a set of      *)
(* ignore patterns is asked about a relative path.                         *)
(***************************************************************************)

\* The relative paths asked about.
IgnorePaths ==
    { "src/main.py", "src/pkg/a.py", "lib/src/b.py", "tests/test_a.py", "src.txt",
      "uv.lock", "lib/uv.lock", "node_modules/p.json", "pkg.egg-info/PKG-INFO",
      ".git/config", "src/.env" }

\* The values of _ignore_patterns: None (the defaults apply) or a set.
IgnoreSets ==
    { NoPatterns, Patterns({}), Patterns({"*.lock"}), Patterns({"node_modules/"}),
      Patterns({"src/main.p?"}), Patterns({"test_?.py"}), Patterns({"src/*"}),
      Patterns({"ma?n"}), Patterns({"lib/", "*.txt"}) }

InitShouldIgnore ==
    /\ fs = InitialFs /\ config = c_all
    /\ last = NoRun /\ prev = NoRun /\ edits = 0
    /\ resolved = NoResult /\ effective = NoPatternSet /\ proj = NoProject
    /\ file \in { [File("**/*", None, "pattern") EXCEPT !._ignore_patterns = P] :
                    P \in IgnoreSets }
    /\ call \in { [fn |-> "should_ignore", called |-> FALSE, path |-> path,
                   result |-> FALSE] : path \in IgnorePaths }

\* file.should_ignore(path)
File_should_ignore ==
    /\ call.fn = "should_ignore" /\ ~call.called
    /\ call' = [call EXCEPT !.called = TRUE, !.result = should_ignore(file, call.path)]
    /\ UNCHANGED <<fs, config, last, prev, edits, file, resolved, effective, proj>>

NextShouldIgnore == File_should_ignore

SpecShouldIgnore == InitShouldIgnore /\ [][NextShouldIgnore]_vars

\* A pattern has a wildcard character.
HasWildcard(pattern) == \E c \in {"*", "?", "["} : contains(pattern, c)

\* C23: for a path with no dot-leading segment should_ignore of a pattern
\* File is true exactly when some active pattern matches: by shell-glob
\* matching of the whole path for a pattern with a wildcard character
\* (*, ? or [...]), as a substring for a pattern with none.
C23_WildcardMeansGlob ==
    (call.fn = "should_ignore" /\ call.called /\ ~has_dot_part(call.path))
        => call.result
             = (\E pattern \in ignore_patterns(file) :
                   IF HasWildcard(pattern) THEN fnmatch(call.path, pattern)
                   ELSE contains(call.path, pattern))

(***************************************************************************)
(* Properties of patterns without '**' (SpecResolve).                      *)
(***************************************************************************)

\* C24: a pattern without '**' is matched at the depth it spells out: every
\* resolved path has as many segments as the pattern, and each segment of
\* the pattern matches the segment of the path at its place.
C24_MatchedAtSpelledDepth ==
    (resolved.called /\ file.kind = "pattern" /\ ~contains(file.path, "**"))
        => \A path \in PathsOf(resolved.files) :
              LET pat == parts(file.path)
                  pp == parts(path)
              IN  /\ Len(pp) = Len(pat)
                  /\ \A i \in 1..Len(pat) : fnmatch(pp[i], pat[i])

\* C24 happens: 'src/*/*.py' yields the file one directory below src and
\* not the one directly in it.
C24_Witness ==
    /\ resolved.called /\ file.path = "src/*/*.py"
    /\ fs["src/main.py"] = Data
    /\ PathsOf(resolved.files) = {"src/pkg/a.py"}

(***************************************************************************)
(* tools/merge_docs.py: process_file.  The content of a markdown file is   *)
(* its list of lines.                                                      *)
(***************************************************************************)

\* "#" * n
RECURSIVE Hashes(_)
Hashes(n) == IF n <= 0 THEN "" ELSE "#" \o Hashes(n - 1)

\* re.sub("^" + "#" * i, "#" * (i + level - 1), content, flags=re.MULTILINE):
\* the i leading characters of every line that starts with i '#' are replaced
sub_headers(content, i, level) ==
    [k \in 1..Len(content) |->
        IF startswith(content[k], Hashes(i))
        THEN Hashes(i + level - 1) \o SubSeq(content[k], i + 1, Len(content[k]))
        ELSE content[k]]

\* for i in range(6, 0, -1): content = re.sub(...)
RECURSIVE adjust_headers(_, _, _)
adjust_headers(content, i, level) ==
    IF i = 0 THEN content
    ELSE adjust_headers(sub_headers(content, i, level), i - 1, level)

\* re.sub(r"\[([^\]]+)\]\((?!http)([^)]+)\)", "[\1](parent/\2)", content) on
\* a line with at most one link
fix_link(line, parent) ==
    LET open == find(line, "[", 1)
        close == IF open = 0 THEN 0 ELSE find(line, "]", open + 2)
        paren == IF close = 0 \/ SubSeq(line, close + 1, close + 1) # "(" THEN 0
                 ELSE find(line, ")", close + 3)
    IN  IF paren = 0 \/ startswith(SubSeq(line, close + 2, Len(line)), "http")
        THEN line
        ELSE SubSeq(line, 1, close + 1) \o parent \o "/"
                \o SubSeq(line, close + 2, Len(line))

\* process_file(file, config): the content read is adjusted and returned
process_file(content, parent, level, processing) ==
    LET adjusted == IF processing.adjust_headers THEN adjust_headers(content, 6, level)
                    ELSE content
    IN  IF processing.fix_links
        THEN [k \in 1..Len(adjusted) |-> fix_link(adjusted[k], parent)]
        ELSE adjusted

\* The greatest level of a SourceFile.
MaxLevel == 3

\* The lines of the files.
Lines ==
    { "# Header", "## Header2", "### Third", "###### Sixth", "Content",
      "[Link](docs/test.md)", "[Site](http://example.org)", "a # b" }

\* The contents of the files: one line or two.
Contents == { <<l>> : l \in Lines } \cup { <<l, m>> : l \in {"# Header", "Content"}, m \in Lines }

\* ProcessingConfig(adjust_headers=..., fix_links=...)
ProcessingConfigs == [adjust_headers : BOOLEAN, fix_links : BOOLEAN]

InitProcess ==
    /\ fs = InitialFs /\ config = c_all
    /\ last = NoRun /\ prev = NoRun /\ edits = 0
    /\ file = NoFile /\ resolved = NoResult /\ effective = NoPatternSet
    /\ proj = NoProject
    /\ call \in { [fn |-> "process_file", called |-> FALSE, content |-> content,
                   parent |-> "docs", level |-> level, config |-> cfg,
                   result |-> <<>>] :
                    content \in Contents, level \in 1..MaxLevel,
                    cfg \in ProcessingConfigs }

\* await process_file(file, config)
process_file_call ==
    /\ call.fn = "process_file" /\ ~call.called
    /\ call' = [call EXCEPT !.called = TRUE,
                            !.result = process_file(call.content, call.parent,
                                                    call.level, call.config)]
    /\ UNCHANGED <<fs, config, last, prev, edits, file, resolved, effective, proj>>

NextProcess == process_file_call

SpecProcess == InitProcess /\ [][NextProcess]_vars

\* The number of '#' a line starts with.
Depth(line) ==
    CHOOSE n \in 0..Len(line) :
        /\ SubSeq(line, 1, n) = Hashes(n)
        /\ SubSeq(line, n + 1, n + 1) # "#"

\* A line has a link.
HasLink(line) == contains(line, "](")

\* C25: with adjust_headers a header line of depth d (1..6) of a file of
\* level L comes out with depth d + L - 1 and the same text, and a line that
\* is no header (and has no link to fix) comes out as it is.
C25_HeadersShiftedByLevel ==
    (call.fn = "process_file" /\ call.called /\ call.config.adjust_headers)
        => /\ Len(call.result) = Len(call.content)
           /\ \A k \in 1..Len(call.content) :
                 LET line == call.content[k]
                     d == Depth(line)
                 IN  IF d \in 1..6
                     THEN /\ Depth(call.result[k]) = d + call.level - 1
                          /\ SubSeq(call.result[k], Depth(call.result[k]) + 1,
                                    Len(call.result[k]))
                                = SubSeq(line, d + 1, Len(line))
                     ELSE HasLink(line) \/ call.result[k] = line

(***************************************************************************)
(* init run again: the directory is one that init has already been run on. *)
(***************************************************************************)

\* The directory after a first run of init on it with no option given.
Initialised(p) ==
    With(init_command(p, FALSE, None, FALSE), LAMBDA r :
        [p EXCEPT !.exists = r.exists, !.tree = r.tree])

\* The directories init is run on again: the current directory with a file of
\* the user's, and a project that init created.
ReinitProjects ==
    { Initialised([NoProject EXCEPT !.path = ".", !.exists = TRUE,
                                    !.tree["existing.txt"] = Data]),
      Initialised([NoProject EXCEPT !.path = "test-proj"]) }
    \cup { Initialised([NoProject EXCEPT !.path = "test-proj", !.env = e]) : e \in Envs }

InitReinit ==
    /\ fs = InitialFs /\ config = c_all
    /\ last = NoRun /\ prev = NoRun /\ edits = 0
    /\ file = NoFile /\ resolved = NoResult /\ effective = NoPatternSet
    /\ proj \in ReinitProjects
    /\ call = NoCall

SpecReinit == InitReinit /\ [][NextInit]_vars

\* The latest run of init was on a directory that init had been run on, and
\* it created the workspace again.
RanAgain ==
    /\ Created
    /\ proj.run.before.tree[ConfigName].kind = "data"

\* C26: a run of init on a directory that is already initialised changes
\* the content of no file that was there, the scaffold, the .cc/data files
\* and .cc/codecompanion.yaml included (the compiled artifact, which every
\* compile writes anew, is left aside).
C26_ReinitChangesNoFile ==
    RanAgain
        => \A q \in InitPaths \ {OutputName} :
              proj.run.before.tree[q].kind # "absent"
                 => proj.tree[q] = proj.run.before.tree[q]

(***************************************************************************)
(* Properties of recursive patterns with a directory prefix (SpecResolve). *)
(***************************************************************************)

\* C27: a pattern D/**/G is anchored at the base directory: every path it
\* resolves to starts with 'D/', so a file below a directory named D
\* elsewhere in the tree is never returned.
C27_RecursivePatternAnchored ==
    (resolved.called /\ file.kind = "pattern" /\ IsRecursiveForm(file.path))
        => \A path \in PathsOf(resolved.files) :
              startswith(path, DirOf(file.path) \o "/")

(***************************************************************************)
(* Properties of the artifact's paths (Spec).                              *)
(***************************************************************************)

\* A path stays inside the base directory: it is relative and has no '..'.
Inside(path) == ~is_absolute(path) /\ ".." \notin Range(split_sep(path, ""))

\* The paths an artifact lists, over all its groups.
ArtifactPaths(doc) ==
    UNION { { doc.groups[g].files[i].path : i \in 1..Len(doc.groups[g].files) } :
              g \in 1..Len(doc.groups) }

\* C28: every path a compiled artifact lists denotes a file inside the base
\* directory, and an entry of the config that points outside it never makes
\* the run fail once the output is open.
C28_ArtifactStaysInsideBase ==
    Loaded
        => /\ last.status = "Success"
                 => \A path \in ArtifactPaths(Artifact) : Inside(path)
           /\ (\E e \in Entries_of(config) :
                   ~Inside(config.groups[e[1]].files[e[2]].path))
                 => last.raised_at # "resolve_patterns"

\* C29: the artifact of a successful run never lists its own output file,
\* whatever the config names and whatever was at the output path before.
C29_ArtifactOmitsItself ==
    (Loaded /\ last.status = "Success")
        => OutputName \notin ArtifactPaths(Artifact)

\* C29 happens: the config has '**/*' and an explicit entry for the output
\* file, an artifact of an earlier run is there non-empty, and the run
\* succeeds.
C29_Witness ==
    /\ Loaded /\ last.status = "Success" /\ config = c_output
    /\ last.before.kind = "data" /\ last.before.doc.written
    /\ Artifact.written
    /\ OutputName \notin ArtifactPaths(Artifact)

(***************************************************************************)
(* Properties of init when the tools fail (SpecInit).                      *)
(***************************************************************************)

\* The latest run of init was given a named directory and a template that
\* is known, and was not called off by the user: a project was to be made.
NewProjectRun ==
    /\ proj.run.called /\ proj.path # "."
    /\ (proj.run.template = None \/ proj.run.template \in TEMPLATES)
    /\ (proj.run.before.exists /\ ~proj.run.force => proj.run.answer)

\* The files of the scaffold.
ScaffoldFiles ==
    { "README.md", "CHANGELOG.md", ".gitignore", "test_proj/__init__.py",
      "test_proj/main.py", "tests/__init__.py", "tests/test_basic.py",
      "scripts/ccw_check.sh", "pyproject.toml" }

\* The git user name cannot be read: there is no git or no name is set.
NameUnreadable == proj.env.git = "missing" \/ proj.env.user_name = None

\* 'git --version' is called at some point after 'uv add'.
GitAttemptedAfterUv(commands) ==
    \E u \in PositionsOf(commands, "uv add --dev"),
       g \in PositionsOf(commands, "git --version") : u < g

\* C30: whatever git and uv do short of an error other than a missing
\* program or a failing exit status, init of a new project exits with
\* code 0, the scaffold, .cc/codecompanion.yaml and the compiled artifact
\* are written, the URLs of pyproject.toml say 'username' when the git user
\* name cannot be read, and git is tried after a 'uv add' that failed.
C30_ToolFailureNeverFailsInit ==
    NewProjectRun =>
        /\ proj.run.exit_code = 0
        /\ \A q \in ScaffoldFiles : proj.tree[q].kind # "absent"
        /\ proj.tree[ConfigName].kind = "data"
        /\ proj.tree[OutputName].kind = "data" /\ proj.tree[OutputName].doc.written
        /\ NameUnreadable
              => /\ proj.run.git_username = "username"
                 /\ proj.tree["pyproject.toml"].doc.homepage
                       = "https://github.com/username/test_proj"
                 /\ proj.tree["pyproject.toml"].doc.repository
                       = "https://github.com/username/test_proj"
        /\ proj.run.uv = "failed" => GitAttemptedAfterUv(proj.run.commands)

\* C30 happens: a new project is made where there is no git and 'uv add'
\* fails; the three calls are made and init ends with code 0.
C30_Witness ==
    /\ NewProjectRun /\ ~proj.run.before.exists
    /\ proj.env.git = "missing" /\ proj.run.uv = "failed"
    /\ proj.run.commands = <<"git --version", "uv add --dev", "git --version">>
    /\ proj.run.exit_code = 0
    /\ proj.tree["pyproject.toml"].doc.homepage = "https://github.com/username/test_proj"
====
